---- MODULE Spec2Model ----
(***************************************************************************)
(* Session / CSRF authentication flow of the user-management REST service. *)
(* One request slot per concurrent inbound request; every handler is split *)
(* at its calls into the user directory (authUC) and the session store     *)
(* (sessUC), each of which is one atomic round trip to its backing store.  *)
(***************************************************************************)
EXTENDS Integers, Sequences, FiniteSets, TLC

\* ---------------------------------------------------------------- bounds
NumProcs == 2
MaxUsers == 2
MaxSessions == 2

\* ------------------------------------------------------- program constants
MinPasswordLen == 6

StatusOK == 200
StatusCreated == 201
StatusBadRequest == 400
StatusUnauthorized == 401
StatusNotFound == 404
StatusConflict == 409
StatusInternalServerError == 500

\* ----------------------------------------------------------------- inputs
Procs == 1..NumProcs
Emails == {"a@x.io", "b@x.io"}
Passwords == {"hunter2", "12345"}
LoginPasswords == Passwords \cup {"letmein"}
SessionNames == {"session-id", "sid"}
PathParams == {ToString(i) : i \in 1..MaxUsers} \cup {"abc"}

NoUser == 0
NoSid == <<>>
ForgedSid == <<"forged">>
NoCookie == <<>>
NoName == ""
NoToken == <<>>
NoStatus == 0
NoBody == <<>>
Bodies == {"{\"n\":\"ann\"}", "{\"n\":\"<b>ann</b>\"}", "{\"n\":", ""}
NextStatuses == {StatusOK, StatusInternalServerError}

VARIABLES cfgSessionName, users, nextUserID, sessions, nextSid, reqs,
          origin, loggedOut, deletedOK

vars == <<cfgSessionName, users, nextUserID, sessions, nextSid, reqs,
          origin, loggedOut, deletedOK>>

\* ------------------------------------------------------- pure helpers
\* the password is stored as a hash, never as plaintext
HashPassword(pw) == <<"hash", pw>>

ComparePasswords(hash, pw) == hash = HashPassword(pw)

\* session ids are generated, opaque and never reused
NewSessionID(n) == <<"sid", n>>

IssuedSids == {NewSessionID(n) : n \in 1..(nextSid - 1)}

\* keyed hash of the session id under the process-wide secret
CsrfSecret == "salt"

MakeToken(sid) == <<"hmac", CsrfSecret, sid>>

\* error kind -> HTTP status
ErrorResponse(kind) ==
    CASE kind = "Validation" -> StatusBadRequest
      [] kind = "Unauthorized" -> StatusUnauthorized
      [] kind = "NotFound" -> StatusNotFound
      [] kind = "Conflict" -> StatusConflict
      [] OTHER -> StatusInternalServerError

\* strconv.Atoi on a path parameter: the inverse of decimal formatting
Atoi(s) ==
    IF \E n \in 0..(MaxUsers + 1) : ToString(n) = s
    THEN [ok |-> TRUE, val |-> CHOOSE n \in 0..(MaxUsers + 1) : ToString(n) = s]
    ELSE [ok |-> FALSE, val |-> 0]

\* the cookies a client may send: the one Logout reads and the configured one
CookieNames == {"session-id", cfgSessionName}

\* c.Cookie(name): the value, or http.ErrNoCookie
Cookie(jar, name) == jar[name]

Jars == [CookieNames -> {NoCookie, ForgedSid} \cup IssuedSids]

\* ------------------------------------------------------- request slots
Idle ==
    [kind |-> "none", pc |-> "idle", email |-> "", password |-> "",
     cookieName |-> NoName, cookie |-> NoCookie,
     user |-> NoUser, authOK |-> FALSE, sid |-> NoSid,
     status |-> NoStatus, body |-> NoUser,
     setCookie |-> [name |-> NoName, value |-> NoCookie],
     delCookie |-> NoName, header |-> NoToken,
     readName |-> NoName, deleteArg |-> NoSid,
     backendFail |-> FALSE, afterLogout |-> FALSE,
     reqBody |-> "", readErr |-> FALSE, ctxBody |-> NoBody, nextCalls |-> 0]

Init ==
    /\ cfgSessionName \in SessionNames
    /\ users = <<>>
    /\ nextUserID = 1
    /\ sessions = <<>>
    /\ nextSid = 1
    /\ reqs = [p \in Procs |-> Idle]
    /\ origin = <<>>
    /\ loggedOut = {}
    /\ deletedOK = {}

\* ------------------------------------------------------- user directory
UserByEmail(email) == {u \in DOMAIN users : users[u].email = email}

\* utils.ReadRequest: bind and validate the body
ReadRequest(password) ==
    IF Len(password) < MinPasswordLen THEN "Validation" ELSE "ok"

\* authUC.Register: create the user unless the email is taken
AuthUCRegister(email, password) ==
    IF UserByEmail(email) # {}
    THEN [err |-> "Conflict", id |-> NoUser, users |-> users]
    ELSE [err |-> "ok", id |-> nextUserID,
          users |-> [u \in DOMAIN users \cup {nextUserID} |->
                        IF u = nextUserID
                        THEN [email |-> email, password |-> HashPassword(password)]
                        ELSE users[u]]]

\* authUC.Login: find by email, compare the password hash
AuthUCLogin(email, password) ==
    IF UserByEmail(email) = {}
    THEN [err |-> "Unauthorized", id |-> NoUser]
    ELSE LET u == CHOOSE x \in UserByEmail(email) : TRUE
         IN IF ComparePasswords(users[u].password, password)
            THEN [err |-> "ok", id |-> u]
            ELSE [err |-> "Unauthorized", id |-> NoUser]

\* ------------------------------------------------------- session store
SessionsOf(store, uid) == {s \in DOMAIN store : store[s].UserID = uid}

\* sessUC.CreateSession: persist the record under a newly generated id
CreateSession(store, n, uid) ==
    [s \in DOMAIN store \cup {NewSessionID(n)} |->
        IF s = NewSessionID(n) THEN [UserID |-> uid] ELSE store[s]]

\* sessUC.DeleteByID: deleting an absent key is not an error
DeleteByID(store, sid) == [s \in DOMAIN store \ {sid} |-> store[s]]

\* utils.CreateSessionCookie: the cookie carries the session id under the
\* configured name
CreateSessionCookie(name, sid) == [name |-> name, value |-> sid]

\* history: which request created the session, after which directory step
Origin(r) ==
    [kind |-> r.kind, uid |-> r.user, authOK |-> r.authOK,
     afterDelete |-> r.user \in deletedOK]

Live(store) == [s \in DOMAIN origin \cap DOMAIN store |-> origin[s]]

\* ------------------------------------------------------- Register
\* utils.ReadRequest of the RegisterUserRequest
RegisterRead(p, email, password) ==
    /\ reqs[p].pc = "idle"
    /\ LET base == [Idle EXCEPT !.kind = "Register", !.email = email,
                                !.password = password]
           v == ReadRequest(password)
       IN reqs' = [reqs EXCEPT ![p] =
              IF v # "ok"
              THEN [base EXCEPT !.pc = "done", !.status = ErrorResponse(v)]
              ELSE [base EXCEPT !.pc = "read"]]
    /\ UNCHANGED <<cfgSessionName, users, nextUserID, sessions, nextSid,
                   origin, loggedOut, deletedOK>>

\* RegisterCreate with the error of authUC.Register dropped: the handler goes
\* on to CreateSession with whatever authUC.Register returned
RegisterCreateIgnoresError(p) ==
    /\ reqs[p].pc = "read"
    /\ reqs[p].kind = "Register"
    /\ LET r == AuthUCRegister(reqs[p].email, reqs[p].password)
       IN /\ r.err = "ok" => nextUserID <= MaxUsers
          /\ users' = r.users
          /\ nextUserID' = IF r.err = "ok" THEN nextUserID + 1 ELSE nextUserID
          /\ reqs' = [reqs EXCEPT ![p].pc = "created", ![p].user = r.id,
                                  ![p].authOK = (r.err = "ok")]
    /\ UNCHANGED <<cfgSessionName, sessions, nextSid, origin, loggedOut, deletedOK>>

\* h.authUC.Register and its error response
RegisterCreate(p) ==
    /\ reqs[p].pc = "read"
    /\ reqs[p].kind = "Register"
    /\ LET r == AuthUCRegister(reqs[p].email, reqs[p].password)
       IN IF r.err # "ok"
          THEN /\ reqs' = [reqs EXCEPT ![p].pc = "done",
                                       ![p].status = ErrorResponse(r.err)]
               /\ UNCHANGED <<users, nextUserID>>
          ELSE /\ nextUserID <= MaxUsers
               /\ users' = r.users
               /\ nextUserID' = nextUserID + 1
               /\ reqs' = [reqs EXCEPT ![p].pc = "created", ![p].user = r.id,
                                       ![p].authOK = TRUE]
    /\ UNCHANGED <<cfgSessionName, sessions, nextSid, origin, loggedOut, deletedOK>>

\* &models.Session{UserID: createdUser.User.ID}
RegisterNewSession(r) == [UserID |-> r.user]

\* RegisterSessionResponse with the error of CreateSession dropped: the cookie
\* and 201 go out although no session was stored
RegisterSessionResponseIgnoresError(r, name, sid, fail) ==
    [r EXCEPT !.pc = "done", !.sid = sid,
              !.setCookie = CreateSessionCookie(name, sid),
              !.status = StatusCreated, !.body = r.user]

\* the response of Register once the user is created: CreateSession, then the
\* cookie and 201, or the error response with no cookie
RegisterSessionResponse(r, name, sid, fail) ==
    IF fail
    THEN [r EXCEPT !.pc = "done", !.status = ErrorResponse("Storage")]
    ELSE [r EXCEPT !.pc = "done", !.sid = sid,
                   !.setCookie = CreateSessionCookie(name, sid),
                   !.status = StatusCreated, !.body = r.user]

\* h.sessUC.CreateSession, c.SetCookie, c.JSON(201)
RegisterSession(p, fail) ==
    /\ reqs[p].pc = "created"
    /\ reqs[p].kind = "Register"
    /\ reqs' = [reqs EXCEPT ![p] =
           RegisterSessionResponse(reqs[p], cfgSessionName, NewSessionID(nextSid), fail)]
    /\ IF fail
       THEN UNCHANGED <<sessions, nextSid, origin>>
       ELSE /\ nextSid <= MaxSessions
            /\ sessions' = CreateSession(sessions, nextSid, RegisterNewSession(reqs[p]).UserID)
            /\ nextSid' = nextSid + 1
            /\ origin' = [s \in DOMAIN origin \cup {NewSessionID(nextSid)} |->
                   IF s = NewSessionID(nextSid)
                   THEN Origin(reqs[p])
                   ELSE origin[s]]
    /\ UNCHANGED <<cfgSessionName, users, nextUserID, loggedOut, deletedOK>>

\* ------------------------------------------------------- Login
\* LoginCheckResponse with the error of authUC.Login dropped
LoginCheckResponseIgnoresError(base, v, r) ==
    IF v # "ok"
    THEN [base EXCEPT !.pc = "done", !.status = ErrorResponse(v)]
    ELSE [base EXCEPT !.pc = "checked", !.user = r.id]

\* the handler after authUC.Login: the error response, or on to CreateSession
LoginCheckResponse(base, v, r) ==
    IF v # "ok"
    THEN [base EXCEPT !.pc = "done", !.status = ErrorResponse(v)]
    ELSE IF r.err # "ok"
    THEN [base EXCEPT !.pc = "done", !.status = ErrorResponse(r.err)]
    ELSE [base EXCEPT !.pc = "checked", !.user = r.id]

\* utils.ReadRequest and h.authUC.Login
LoginCheck(p, email, password) ==
    /\ reqs[p].pc = "idle"
    /\ LET v == ReadRequest(password)
           r == AuthUCLogin(email, password)
           base == [Idle EXCEPT !.kind = "Login",
                                !.authOK = (v = "ok" /\ r.err = "ok")]
       IN reqs' = [reqs EXCEPT ![p] = LoginCheckResponse(base, v, r)]
    /\ UNCHANGED <<cfgSessionName, users, nextUserID, sessions, nextSid,
                   origin, loggedOut, deletedOK>>

\* LoginNewSession with the UserID field left at its zero value
LoginNewSessionNoOwner(r) == [UserID |-> NoUser]

\* &models.Session{UserID: userWithToken.User.ID}
LoginNewSession(r) == [UserID |-> r.user]

\* LoginSessionResponse with the error of CreateSession dropped: the cookie
\* and 200 go out although no session was stored
LoginSessionResponseIgnoresError(r, name, sid, fail) ==
    [r EXCEPT !.pc = "done", !.sid = sid,
              !.setCookie = CreateSessionCookie(name, sid),
              !.status = StatusOK, !.body = r.user]

\* the response of Login once the credentials are checked
LoginSessionResponse(r, name, sid, fail) ==
    IF fail
    THEN [r EXCEPT !.pc = "done", !.status = ErrorResponse("Storage")]
    ELSE [r EXCEPT !.pc = "done", !.sid = sid,
                   !.setCookie = CreateSessionCookie(name, sid),
                   !.status = StatusOK, !.body = r.user]

\* h.sessUC.CreateSession, c.SetCookie, c.JSON(200)
LoginSession(p, fail) ==
    /\ reqs[p].pc = "checked"
    /\ reqs[p].kind = "Login"
    /\ reqs' = [reqs EXCEPT ![p] =
           LoginSessionResponse(reqs[p], cfgSessionName, NewSessionID(nextSid), fail)]
    /\ IF fail
       THEN UNCHANGED <<sessions, nextSid, origin>>
       ELSE /\ nextSid <= MaxSessions
            /\ sessions' = CreateSession(sessions, nextSid, LoginNewSession(reqs[p]).UserID)
            /\ nextSid' = nextSid + 1
            /\ origin' = [s \in DOMAIN origin \cup {NewSessionID(nextSid)} |->
                   IF s = NewSessionID(nextSid)
                   THEN Origin(reqs[p])
                   ELSE origin[s]]
    /\ UNCHANGED <<cfgSessionName, users, nextUserID, loggedOut, deletedOK>>

\* ------------------------------------------------------- Logout
\* LogoutResult that clears the cookie without calling DeleteByID
LogoutResultKeepsSession(jar, name, store, fail) ==
    LET cookie == Cookie(jar, "session-id")
    IN IF cookie = NoCookie
       THEN [status |-> StatusUnauthorized, store |-> store,
             readName |-> "session-id",
             deleteArg |-> NoSid, delCookie |-> NoName]
       ELSE [status |-> StatusOK, store |-> store,
             readName |-> "session-id",
             deleteArg |-> NoSid, delCookie |-> name]

\* LogoutResult with the error of c.Cookie dropped: DeleteByID runs on the
\* empty value and the cookie is cleared
LogoutResultIgnoresNoCookie(jar, name, store, fail) ==
    LET cookie == Cookie(jar, "session-id")
    IN IF fail
       THEN [status |-> ErrorResponse("Storage"), store |-> store,
             readName |-> "session-id",
             deleteArg |-> cookie, delCookie |-> NoName]
       ELSE [status |-> StatusOK, store |-> DeleteByID(store, cookie),
             readName |-> "session-id",
             deleteArg |-> cookie, delCookie |-> name]

\* LogoutResult that answers NotFound for a session that is not in the store
LogoutResultNotFound(jar, name, store, fail) ==
    LET cookie == Cookie(jar, "session-id")
    IN IF cookie = NoCookie
       THEN [status |-> StatusUnauthorized, store |-> store,
             readName |-> "session-id",
             deleteArg |-> NoSid, delCookie |-> NoName]
       ELSE IF fail
       THEN [status |-> ErrorResponse("Storage"), store |-> store,
             readName |-> "session-id",
             deleteArg |-> cookie, delCookie |-> NoName]
       ELSE IF cookie \notin DOMAIN store
       THEN [status |-> ErrorResponse("NotFound"), store |-> store,
             readName |-> "session-id",
             deleteArg |-> cookie, delCookie |-> NoName]
       ELSE [status |-> StatusOK, store |-> DeleteByID(store, cookie),
             readName |-> "session-id",
             deleteArg |-> cookie, delCookie |-> name]

\* the whole handler: the cookie "session-id", DeleteByID, the cookie removal
LogoutResult(jar, name, store, fail) ==
    LET cookie == Cookie(jar, "session-id")
    IN IF cookie = NoCookie
       THEN [status |-> StatusUnauthorized, store |-> store,
             readName |-> "session-id",
             deleteArg |-> NoSid, delCookie |-> NoName]
       ELSE IF fail
       THEN [status |-> ErrorResponse("Storage"), store |-> store,
             readName |-> "session-id",
             deleteArg |-> cookie, delCookie |-> NoName]
       ELSE [status |-> StatusOK, store |-> DeleteByID(store, cookie),
             readName |-> "session-id",
             deleteArg |-> cookie, delCookie |-> name]

Logout(p, jar, fail) ==
    /\ reqs[p].pc = "idle"
    /\ LET r == LogoutResult(jar, cfgSessionName, sessions, fail)
       IN /\ sessions' = r.store
          /\ reqs' = [reqs EXCEPT ![p] =
                 [Idle EXCEPT !.kind = "Logout", !.pc = "done",
                              !.cookieName = "session-id",
                              !.cookie = Cookie(jar, "session-id"),
                              !.backendFail = fail,
                              !.status = r.status, !.readName = r.readName,
                              !.deleteArg = r.deleteArg,
                              !.delCookie = r.delCookie]]
          /\ origin' = Live(r.store)
          /\ loggedOut' = IF r.status = StatusOK
                          THEN loggedOut \cup ({Cookie(jar, "session-id")} \cap IssuedSids)
                          ELSE loggedOut
    /\ UNCHANGED <<cfgSessionName, users, nextUserID, nextSid, deletedOK>>

\* ------------------------------------------------------- Delete
\* authUC.Delete: NotFound if absent; the user's sessions go with the user
AuthUCDelete(dir, store, uid) ==
    IF uid \notin DOMAIN dir
    THEN [err |-> "NotFound", users |-> dir, store |-> store]
    ELSE [err |-> "ok",
          users |-> [u \in DOMAIN dir \ {uid} |-> dir[u]],
          store |-> [s \in DOMAIN store \ SessionsOf(store, uid) |-> store[s]]]

\* DeleteResult that answers 200 without calling authUC.Delete
DeleteResultSkipsDelete(param, dir, store) ==
    LET a == Atoi(param)
    IN IF ~a.ok
       THEN [status |-> ErrorResponse("Atoi"), users |-> dir, store |-> store,
             uid |-> NoUser]
       ELSE [status |-> StatusOK, users |-> dir, store |-> store,
             uid |-> a.val]

\* the whole handler: Atoi of the path parameter, authUC.Delete
DeleteResult(param, dir, store) ==
    LET a == Atoi(param)
        r == AuthUCDelete(dir, store, a.val)
    IN IF ~a.ok
       THEN [status |-> ErrorResponse("Atoi"), users |-> dir, store |-> store,
             uid |-> NoUser]
       ELSE IF r.err # "ok"
       THEN [status |-> ErrorResponse(r.err), users |-> dir, store |-> store,
             uid |-> a.val]
       ELSE [status |-> StatusOK, users |-> r.users, store |-> r.store,
             uid |-> a.val]

Delete(p, param) ==
    /\ reqs[p].pc = "idle"
    /\ LET r == DeleteResult(param, users, sessions)
       IN /\ users' = r.users
          /\ sessions' = r.store
          /\ reqs' = [reqs EXCEPT ![p] =
                 [Idle EXCEPT !.kind = "Delete", !.pc = "done",
                              !.user = r.uid, !.status = r.status]]
          /\ origin' = Live(r.store)
          /\ deletedOK' = IF r.status = StatusOK
                          THEN deletedOK \cup {r.uid} ELSE deletedOK
    /\ UNCHANGED <<cfgSessionName, nextUserID, nextSid, loggedOut>>

\* ------------------------------------------------------- GetMe, GetCSRFToken
\* the session middleware in front of the handler: the request context gets
\* the session id and the user the session cookie resolves to
AuthSessionMiddleware(jar, name, dir, store) ==
    LET cookie == Cookie(jar, name)
    IN IF cookie \in DOMAIN store /\ store[cookie].UserID \in DOMAIN dir
       THEN [user |-> store[cookie].UserID, sid |-> cookie]
       ELSE [user |-> NoUser, sid |-> NoSid]

\* c.Get("user").(*models.UserWithRole)
GetMeResponse(ctx) ==
    IF ctx.user = NoUser
    THEN [status |-> StatusUnauthorized, body |-> NoUser]
    ELSE [status |-> StatusOK, body |-> ctx.user]

GetMe(p, jar) ==
    /\ reqs[p].pc = "idle"
    /\ LET ctx == AuthSessionMiddleware(jar, cfgSessionName, users, sessions)
           r == GetMeResponse(ctx)
       IN reqs' = [reqs EXCEPT ![p] =
              [Idle EXCEPT !.kind = "GetMe", !.pc = "done",
                           !.cookieName = cfgSessionName,
                           !.cookie = Cookie(jar, cfgSessionName),
                           !.status = r.status, !.body = r.body,
                           !.afterLogout = (Cookie(jar, cfgSessionName) \in loggedOut)]]
    /\ UNCHANGED <<cfgSessionName, users, nextUserID, sessions, nextSid,
                   origin, loggedOut, deletedOK>>

\* GetCSRFTokenResponse that derives the token from the user id
GetCSRFTokenResponseOfUser(ctx) ==
    IF ctx.sid = NoSid
    THEN [status |-> StatusUnauthorized, header |-> NoToken]
    ELSE [status |-> StatusOK, header |-> MakeToken(<<"uid", ctx.user>>)]

\* c.Get("sid").(string), csrf.MakeToken, the response header
GetCSRFTokenResponse(ctx) ==
    IF ctx.sid = NoSid
    THEN [status |-> StatusUnauthorized, header |-> NoToken]
    ELSE [status |-> StatusOK, header |-> MakeToken(ctx.sid)]

GetCSRFToken(p, jar) ==
    /\ reqs[p].pc = "idle"
    /\ LET ctx == AuthSessionMiddleware(jar, cfgSessionName, users, sessions)
           r == GetCSRFTokenResponse(ctx)
       IN reqs' = [reqs EXCEPT ![p] =
              [Idle EXCEPT !.kind = "GetCSRFToken", !.pc = "done",
                           !.cookieName = cfgSessionName,
                           !.cookie = Cookie(jar, cfgSessionName),
                           !.sid = ctx.sid, !.status = r.status,
                           !.header = r.header]]
    /\ UNCHANGED <<cfgSessionName, users, nextUserID, sessions, nextSid,
                   origin, loggedOut, deletedOK>>

\* ------------------------------------------------------- Sanitize
\* sanitize.SanitizeJSON: the body with the markup stripped from its strings,
\* or an error for a body that is not JSON
SanitizeJSON(body) ==
    CASE body = "{\"n\":\"ann\"}" -> [ok |-> TRUE, out |-> "{\"n\":\"ann\"}"]
      [] body = "{\"n\":\"<b>ann</b>\"}" -> [ok |-> TRUE, out |-> "{\"n\":\"ann\"}"]
      [] OTHER -> [ok |-> FALSE, out |-> ""]

\* SanitizeResult with the error of SanitizeJSON dropped: the raw body goes
\* into the context and the next handler runs
SanitizeResultIgnoresError(body, readErr, nextStatus) ==
    IF readErr
    THEN [status |-> StatusBadRequest, ctxBody |-> NoBody, nextCalls |-> 0]
    ELSE LET san == SanitizeJSON(body)
         IN [status |-> nextStatus,
             ctxBody |-> <<IF san.ok THEN san.out ELSE body>>,
             nextCalls |-> 1]

\* the whole middleware: io.ReadAll, SanitizeJSON, ctx.Set("body"), next(ctx)
SanitizeResult(body, readErr, nextStatus) ==
    IF readErr
    THEN [status |-> StatusBadRequest, ctxBody |-> NoBody, nextCalls |-> 0]
    ELSE LET san == SanitizeJSON(body)
         IN IF ~san.ok
            THEN [status |-> StatusBadRequest, ctxBody |-> NoBody, nextCalls |-> 0]
            ELSE [status |-> nextStatus, ctxBody |-> <<san.out>>, nextCalls |-> 1]

Sanitize(p, body, readErr, nextStatus) ==
    /\ reqs[p].pc = "idle"
    /\ LET r == SanitizeResult(body, readErr, nextStatus)
       IN reqs' = [reqs EXCEPT ![p] =
              [Idle EXCEPT !.kind = "Sanitize", !.pc = "done",
                           !.reqBody = body, !.readErr = readErr,
                           !.status = r.status, !.ctxBody = r.ctxBody,
                           !.nextCalls = r.nextCalls]]
    /\ UNCHANGED <<cfgSessionName, users, nextUserID, sessions, nextSid,
                   origin, loggedOut, deletedOK>>

\* ------------------------------------------------------- environment
\* the session's TTL runs out in the store
Expire(s) ==
    /\ s \in DOMAIN sessions
    /\ sessions' = DeleteByID(sessions, s)
    /\ origin' = Live(sessions')
    /\ UNCHANGED <<cfgSessionName, users, nextUserID, nextSid, reqs,
                   loggedOut, deletedOK>>

\* the handler has returned: the response is written and the slot is free
Respond(p) ==
    /\ reqs[p].pc = "done"
    /\ reqs' = [reqs EXCEPT ![p] = Idle]
    /\ UNCHANGED <<cfgSessionName, users, nextUserID, sessions, nextSid,
                   origin, loggedOut, deletedOK>>

Next ==
    \/ \E p \in Procs, e \in Emails, pw \in Passwords : RegisterRead(p, e, pw)
    \/ \E p \in Procs : RegisterCreate(p)
    \/ \E p \in Procs, fail \in BOOLEAN : RegisterSession(p, fail)
    \/ \E p \in Procs, e \in Emails, pw \in LoginPasswords : LoginCheck(p, e, pw)
    \/ \E p \in Procs, fail \in BOOLEAN : LoginSession(p, fail)
    \/ \E p \in Procs, jar \in Jars, fail \in BOOLEAN : Logout(p, jar, fail)
    \/ \E p \in Procs, param \in PathParams : Delete(p, param)
    \/ \E p \in Procs, jar \in Jars : GetMe(p, jar)
    \/ \E p \in Procs, jar \in Jars : GetCSRFToken(p, jar)
    \/ \E s \in IssuedSids : Expire(s)
    \/ \E p \in Procs : Respond(p)

Spec == Init /\ [][Next]_vars

\* Register requests alone, one per slot, none of them leaving its slot
NextRegister ==
    \/ \E p \in Procs, e \in Emails, pw \in Passwords : RegisterRead(p, e, pw)
    \/ \E p \in Procs : RegisterCreate(p)
    \/ \E p \in Procs, fail \in BOOLEAN : RegisterSession(p, fail)

SpecRegister == Init /\ [][NextRegister]_vars

\* requests through the Sanitize middleware alone
NextSanitize ==
    \/ \E p \in Procs, b \in Bodies, readErr \in BOOLEAN, st \in NextStatuses :
          Sanitize(p, b, readErr, st)
    \/ \E p \in Procs : Respond(p)

SpecSanitize == Init /\ [][NextSanitize]_vars

\* ------------------------------------------------------- shapes
TypeOK ==
    /\ cfgSessionName \in SessionNames
    /\ nextUserID \in 1..(MaxUsers + 1)
    /\ nextSid \in 1..(MaxSessions + 1)
    /\ DOMAIN users \subseteq 1..(nextUserID - 1)
    /\ DOMAIN sessions \subseteq IssuedSids
    /\ DOMAIN origin = DOMAIN sessions
    /\ loggedOut \subseteq IssuedSids
    /\ \A p \in Procs : reqs[p].pc \in {"idle", "read", "created", "checked", "done"}

Done(p, kind) == reqs[p].kind = kind /\ reqs[p].pc = "done"

\* the response GetMe gives to a request whose only cookie is name=value
GetMeWith(name, value) ==
    GetMeResponse(AuthSessionMiddleware(
        [n \in CookieNames |-> IF n = name THEN value ELSE NoCookie],
        cfgSessionName, users, sessions))

\* ------------------------------------------------------- C1
\* C1: once a Logout carrying the session id s of an issued session has
\* answered 200, every GetMe that arrives later with cookie value s answers
\* 401 and returns no user, whatever else runs in between.
C1_LogoutThenGetMeUnauthorized ==
    \A p \in Procs :
        (Done(p, "GetMe") /\ reqs[p].afterLogout)
            => (reqs[p].status = StatusUnauthorized /\ reqs[p].body = NoUser)

C1_Witness ==
    \E p \in Procs :
        /\ Done(p, "GetMe")
        /\ reqs[p].afterLogout
        /\ reqs[p].cookie \in IssuedSids
        /\ reqs[p].status = StatusUnauthorized

\* ------------------------------------------------------- C2
\* what holds of the response of a Login that answered 200
LoginIssued(p) ==
    LET r == reqs[p]
        c == r.setCookie
        me == GetMeWith(c.name, c.value)
    IN /\ r.user # NoUser
       /\ r.body = r.user
       /\ c.value \in DOMAIN sessions
       /\ sessions[c.value].UserID = r.user
       /\ (r.user \in DOMAIN users) =>
              (me.status = StatusOK /\ me.body = r.user)

C3_NoSessionOfDeletedUser ==
    \A s \in DOMAIN sessions : sessions[s].UserID \notin deletedOK

\* C3 amended: after a Delete of user u has answered 200, every session of u
\* created before that Delete is gone for good; a session of u in the store
\* was created after the Delete, by a Register or Login whose directory step
\* came before it.
C3_SessionsBeforeDeleteGone ==
    \A s \in DOMAIN sessions :
        sessions[s].UserID \in deletedOK => origin[s].afterDelete

C3_Witness ==
    \E p, q \in Procs :
        /\ Done(p, "Delete")
        /\ reqs[p].status = StatusOK
        /\ reqs[q].pc = "done"
        /\ reqs[q].kind \in {"Register", "Login"}
        /\ reqs[q].sid # NoSid
        /\ reqs[q].user = reqs[p].user
        /\ reqs[q].sid \notin DOMAIN sessions
        /\ reqs[q].sid \notin loggedOut

\* ------------------------------------------------------- C4
\* C4: when Register has created the user and CreateSession then fails, the
\* response is an error, no cookie is set, no session is stored for it and
\* the step deletes nothing from the directory; the user, unless a Delete
\* request removed it, logs in with the registered credentials.
C4_RegisterPartialFailure ==
    [][\A p \in Procs :
          (reqs[p].kind = "Register" /\ reqs[p].pc = "created"
             /\ reqs'[p].pc = "done" /\ nextSid' = nextSid)
          => /\ reqs'[p].status >= StatusBadRequest
             /\ reqs'[p].setCookie.name = NoName
             /\ reqs'[p].setCookie.value = NoCookie
             /\ reqs'[p].sid = NoSid
             /\ sessions' = sessions
             /\ users' = users
             /\ (reqs[p].user \in DOMAIN users) =>
                    (AuthUCLogin(reqs[p].email, reqs[p].password)
                        = [err |-> "ok", id |-> reqs[p].user])]_vars

C4_Witness ==
    \E p, q \in Procs :
        /\ Done(p, "Register")
        /\ reqs[p].authOK
        /\ reqs[p].status = StatusInternalServerError
        /\ reqs[p].user \in DOMAIN users
        /\ SessionsOf(sessions, reqs[p].user) = {reqs[q].sid}
        /\ Done(q, "Login")
        /\ reqs[q].status = StatusOK
        /\ reqs[q].user = reqs[p].user

\* ------------------------------------------------------- C5
\* C5: a Logout that carries no session cookie answers 401, does not call
\* DeleteByID, leaves the session store as it was and clears no cookie.
C5_LogoutWithoutCookie ==
    [][\A p \in Procs :
          (reqs[p].pc = "idle" /\ reqs'[p].kind = "Logout"
             /\ reqs'[p].cookie = NoCookie)
          => /\ reqs'[p].status = StatusUnauthorized
             /\ reqs'[p].deleteArg = NoSid
             /\ reqs'[p].delCookie = NoName
             /\ sessions' = sessions]_vars

C5_Witness ==
    \E p \in Procs :
        /\ Done(p, "Logout")
        /\ reqs[p].cookie = NoCookie
        /\ reqs[p].status = StatusUnauthorized
        /\ DOMAIN sessions # {}

\* ------------------------------------------------------- C6
\* C6: a Logout carrying a session id whose session is absent from the store
\* (logged out, expired or never created) answers 200 and clears the cookie
\* like the first Logout, unless the backend fails, and leaves the store as
\* the first Logout left it.
C6_LogoutIdempotent ==
    [][\A p \in Procs :
          (reqs[p].pc = "idle" /\ reqs'[p].kind = "Logout"
             /\ reqs'[p].cookie # NoCookie /\ ~reqs'[p].backendFail)
          => /\ reqs'[p].status = StatusOK
             /\ reqs'[p].delCookie = cfgSessionName
             /\ reqs'[p].cookie \notin DOMAIN sessions'
             /\ (reqs'[p].cookie \notin DOMAIN sessions) => sessions' = sessions]_vars

C6_Witness ==
    \E p, q \in Procs :
        /\ p # q
        /\ Done(p, "Logout") /\ Done(q, "Logout")
        /\ reqs[p].cookie \in IssuedSids
        /\ reqs[q].cookie = reqs[p].cookie
        /\ reqs[p].status = StatusOK
        /\ reqs[q].status = StatusOK

\* ------------------------------------------------------- C7
\* the Register requests for email e that passed validation
Registering(e) ==
    {p \in Procs : reqs[p].kind = "Register" /\ reqs[p].email = e
                      /\ ReadRequest(reqs[p].password) = "ok"}

Settled(e) ==
    /\ Cardinality(Registering(e)) >= 2
    /\ \A p \in Registering(e) : reqs[p].pc = "done"

\* C7 as stated: of the concurrent Register requests for one free email,
\* exactly one answers 201 and every other answers ConflictError.
C7_ExactlyOneSucceeds ==
    \A e \in Emails :
        Settled(e) =>
            \E w \in Registering(e) :
                /\ reqs[w].status = StatusCreated
                /\ \A p \in Registering(e) \ {w} : reqs[p].status = StatusConflict

\* C7 amended: of the concurrent Register requests for one free email,
\* exactly one creates the user record; it answers 201 with one session, or,
\* when its CreateSession fails, an error with no session, the user staying;
\* every other answers ConflictError and creates no user and no session.
C7_ExactlyOneCreates ==
    \A e \in Emails :
        Settled(e) =>
            \E w \in Registering(e) :
                /\ reqs[w].authOK
                /\ UserByEmail(e) = {reqs[w].user}
                /\ \/ /\ reqs[w].status = StatusCreated
                      /\ SessionsOf(sessions, reqs[w].user) = {reqs[w].sid}
                   \/ /\ reqs[w].status = StatusInternalServerError
                      /\ reqs[w].sid = NoSid
                      /\ SessionsOf(sessions, reqs[w].user) = {}
                /\ \A p \in Registering(e) \ {w} :
                      /\ reqs[p].status = StatusConflict
                      /\ ~reqs[p].authOK
                      /\ reqs[p].user = NoUser
                      /\ reqs[p].sid = NoSid
                      /\ reqs[p].setCookie.name = NoName

C7_Witness ==
    \E e \in Emails, p, q \in Procs :
        /\ Settled(e)
        /\ {p, q} \subseteq Registering(e)
        /\ reqs[p].status = StatusCreated
        /\ reqs[q].status = StatusConflict

\* ------------------------------------------------------- C8
SessionsHaveOrigin ==
    /\ \A s \in DOMAIN sessions :
          /\ s \in DOMAIN origin
          /\ origin[s].kind \in {"Register", "Login"}
          /\ origin[s].authOK
          /\ origin[s].uid # NoUser
          /\ sessions[s].UserID = origin[s].uid
    /\ \A p \in Procs :
          (reqs[p].kind \in {"Register", "Login"} /\ ~reqs[p].authOK)
              => (reqs[p].sid = NoSid /\ reqs[p].setCookie.name = NoName)

SessionsNotMutated ==
    \A s \in DOMAIN sessions \cap DOMAIN sessions' : sessions'[s] = sessions[s]

\* C8: every session in the store was created by a Register or Login whose
\* directory step succeeded and is owned by the id that step returned; a
\* Register whose create failed and a Login whose check failed create none;
\* and no step changes the owner of a session that stays in the store.
C8_SessionLifecycle == []SessionsHaveOrigin /\ [][SessionsNotMutated]_vars

C8_Witness ==
    \E s, u \in DOMAIN sessions :
        /\ origin[s].kind = "Register"
        /\ origin[u].kind = "Login"
        /\ \E p \in Procs : Done(p, "Login") /\ ~reqs[p].authOK

\* ------------------------------------------------------- C9
\* C9: GetCSRFToken with session id sid in the request context answers 200
\* with the token header MakeToken(sid); with no session id it answers 401
\* and sets no header; two answers carry the same token exactly when their
\* session ids are the same.
C9_CSRFToken ==
    /\ \A p \in Procs :
          Done(p, "GetCSRFToken") =>
              IF reqs[p].sid # NoSid
              THEN reqs[p].status = StatusOK /\ reqs[p].header = MakeToken(reqs[p].sid)
              ELSE reqs[p].status = StatusUnauthorized /\ reqs[p].header = NoToken
    /\ \A p, q \in Procs :
          (Done(p, "GetCSRFToken") /\ Done(q, "GetCSRFToken")
             /\ reqs[p].status = StatusOK /\ reqs[q].status = StatusOK)
              => ((reqs[p].sid = reqs[q].sid) <=> (reqs[p].header = reqs[q].header))

C9_Witness ==
    \E p, q \in Procs :
        /\ Done(p, "GetCSRFToken") /\ Done(q, "GetCSRFToken")
        /\ reqs[p].status = StatusOK /\ reqs[q].status = StatusOK
        /\ reqs[p].sid # reqs[q].sid
        /\ reqs[p].header # reqs[q].header

\* ------------------------------------------------------- C10
\* C10: a Logout that answered 200 removed from the client the cookie whose
\* value it passed to DeleteByID, and a Logout clears a cookie only when
\* DeleteByID has succeeded.
C10_LogoutClearsItsCookie ==
    \A p \in Procs :
        Done(p, "Logout") =>
            /\ reqs[p].status = StatusOK =>
                  (reqs[p].delCookie = reqs[p].readName
                     /\ reqs[p].deleteArg = reqs[p].cookie)
            /\ reqs[p].delCookie # NoName =>
                  (reqs[p].status = StatusOK /\ ~reqs[p].backendFail)

\* ------------------------------------------------------- C11
CookieOnlyWithSession ==
    \A p \in Procs :
        /\ reqs[p].setCookie.name # NoName =>
              /\ reqs[p].kind \in {"Register", "Login"}
              /\ reqs[p].authOK
              /\ reqs[p].status \in {StatusOK, StatusCreated}
              /\ reqs[p].setCookie.value = reqs[p].sid
              /\ reqs[p].sid \in IssuedSids
        /\ (reqs[p].kind \in {"Register", "Login"} /\ reqs[p].pc = "done"
              /\ reqs[p].status >= StatusBadRequest) =>
              (reqs[p].setCookie.name = NoName /\ reqs[p].setCookie.value = NoCookie)

CookieSetOnStoredSession ==
    \A p \in Procs :
        (reqs[p].setCookie.name = NoName /\ reqs'[p].setCookie.name # NoName)
        => /\ nextSid' = nextSid + 1
           /\ reqs'[p].setCookie.value = NewSessionID(nextSid)
           /\ reqs'[p].setCookie.value \notin DOMAIN sessions
           /\ reqs'[p].setCookie.value \in DOMAIN sessions'
           /\ sessions'[reqs'[p].setCookie.value].UserID = reqs'[p].body
           /\ reqs'[p].body # NoUser

\* C11: a session cookie is set only by a Register or Login in which
\* CreateSession succeeded; at the step that sets it the session id it
\* carries has just been stored and is owned by the id of the user in the
\* response body; every error response of Register and Login sets no cookie.
C11_CookieOnlyOnCreatedSession ==
    []CookieOnlyWithSession /\ [][CookieSetOnStoredSession]_vars

C11_Witness ==
    \E p, q \in Procs :
        /\ Done(p, "Register")
        /\ reqs[p].status = StatusCreated
        /\ reqs[p].setCookie.value \in DOMAIN sessions
        /\ sessions[reqs[p].setCookie.value].UserID = reqs[p].body
        /\ Done(q, "Login")
        /\ reqs[q].authOK
        /\ reqs[q].status = StatusInternalServerError
        /\ reqs[q].setCookie.name = NoName

\* ------------------------------------------------------- C12
\* C12: the Sanitize middleware invokes the next handler, exactly once and
\* with the sanitized body under the context key "body", if and only if
\* reading the body and sanitizing it both succeed; otherwise it answers 400,
\* never invokes the next handler and does not set "body".
C12_SanitizeGating ==
    \A p \in Procs :
        Done(p, "Sanitize") =>
            LET san == SanitizeJSON(reqs[p].reqBody)
            IN IF ~reqs[p].readErr /\ san.ok
               THEN /\ reqs[p].nextCalls = 1
                    /\ reqs[p].ctxBody = <<san.out>>
               ELSE /\ reqs[p].nextCalls = 0
                    /\ reqs[p].ctxBody = NoBody
                    /\ reqs[p].status = StatusBadRequest

C12_Witness ==
    \E p, q \in Procs :
        /\ Done(p, "Sanitize")
        /\ reqs[p].nextCalls = 1
        /\ reqs[p].ctxBody # <<reqs[p].reqBody>>
        /\ Done(q, "Sanitize")
        /\ ~reqs[q].readErr
        /\ reqs[q].nextCalls = 0
        /\ reqs[q].status = StatusBadRequest

====
